---- MODULE Spec2Model ----
(***************************************************************************)
(* Model of generate_listing.py: the export of event registrations from a  *)
(* DynamoDB table into a game listing, a roster, a CSV dump and two PDFs.   *)
(*                                                                         *)
(* Python strings are sequences of one-character strings; Python values    *)
(* are records of one uniform shape (see PStr .. PDict); a registration is *)
(* a function from field names to attribute values; a file is a record     *)
(* with an `exists` flag and its content.                                  *)
(***************************************************************************)
EXTENDS Integers, Sequences, FiniteSets, TLC

VARIABLES
    table,          \* the rows stored in the DynamoDB table (unchanged by a run)
    disk0,          \* what the output directory held before the first run
    pc,             \* the stage main() is about to execute, or "done"/"exited"
    run,            \* number of the current run of main()
    registrations,  \* what fetch_registrations returned in this run
    user_games,     \* the attendee map built by process_registrations
    games_listing_file,
    gamers_file,
    csv_file,
    attendance_pdf,
    termo_pdf,
    stderr,         \* diagnostics printed to sys.stderr in this run
    exit_code,      \* -1 while running, then the exit status of the process
    executed,       \* the stages this run has entered, in order
    prev,           \* the text and CSV outputs as the previous run left them
    arg,            \* input of the function under study (function specifications)
    res,            \* its result
    called          \* whether it has been applied

vars == <<table, disk0, pc, run, registrations, user_games, games_listing_file,
          gamers_file, csv_file, attendance_pdf, termo_pdf, stderr, exit_code,
          executed, prev, arg, res, called>>

pipeVars == <<table, disk0, pc, run, registrations, user_games, games_listing_file,
              gamers_file, csv_file, attendance_pdf, termo_pdf, stderr, exit_code,
              executed, prev>>

fnVars == <<arg, res, called>>

----------------------------------------------------------------------------
(* Bounds of the model *)

\* longest table (number of stored registrations)
MaxRegs == 2
\* longest free-text games field enumerated exhaustively
MaxStrLen == 4
\* runs of main() against the same table
MaxRuns == 2

----------------------------------------------------------------------------
(* Characters and strings *)

\* the characters of the model in ascending code point order
CharOrder ==
    <<"\n", " ", "'", ",", "/", "0", "1", "2", "3", "4", "5", "6", "7", "8", "9", ";",
      "A", "B", "C", "D", "E", "F", "G", "H", "I", "J", "K", "L", "M",
      "N", "O", "P", "Q", "R", "S", "T", "U", "V", "W", "X", "Y", "Z",
      "[", "]",
      "a", "b", "c", "d", "e", "f", "g", "h", "i", "j", "k", "l", "m",
      "n", "o", "p", "q", "r", "s", "t", "u", "v", "w", "x", "y", "z">>

Chars == {CharOrder[i] : i \in 1..Len(CharOrder)}

Ord == [c \in Chars |-> CHOOSE i \in 1..Len(CharOrder) : CharOrder[i] = c]

UpperLetters == <<"A", "B", "C", "D", "E", "F", "G", "H", "I", "J", "K", "L", "M",
                  "N", "O", "P", "Q", "R", "S", "T", "U", "V", "W", "X", "Y", "Z">>

LowerLetters == <<"a", "b", "c", "d", "e", "f", "g", "h", "i", "j", "k", "l", "m",
                  "n", "o", "p", "q", "r", "s", "t", "u", "v", "w", "x", "y", "z">>

IsUpperChar(c) == \E i \in 1..26 : UpperLetters[i] = c

IsLowerChar(c) == \E i \in 1..26 : LowerLetters[i] = c

\* str.upper() on one character
UpperChar(c) ==
    IF IsLowerChar(c)
    THEN UpperLetters[CHOOSE i \in 1..26 : LowerLetters[i] = c]
    ELSE c

\* str.lower() on one character
LowerChar(c) ==
    IF IsUpperChar(c)
    THEN LowerLetters[CHOOSE i \in 1..26 : UpperLetters[i] = c]
    ELSE c

\* str.upper()
Upper(s) == [i \in 1..Len(s) |-> UpperChar(s[i])]

\* str.lower()
Lower(s) == [i \in 1..Len(s) |-> LowerChar(s[i])]

\* str.capitalize(): first character upper case, the rest lower case
Capitalize(s) ==
    [i \in 1..Len(s) |-> IF i = 1 THEN UpperChar(s[i]) ELSE LowerChar(s[i])]

\* the characters str.strip() removes
IsSpace(c) == c \in {" ", "\n"}

\* str.strip(): drop leading and trailing whitespace
Strip(s) ==
    LET keep == {i \in 1..Len(s) : ~IsSpace(s[i])}
    IN  IF keep = {} THEN <<>>
        ELSE LET lo == CHOOSE i \in keep : \A j \in keep : i <= j
                 hi == CHOOSE i \in keep : \A j \in keep : j <= i
             IN  SubSeq(s, lo, hi)

\* a < b for Python strings (lexicographic by code point)
RECURSIVE StrLess(_, _)
StrLess(a, b) ==
    IF b = <<>> THEN FALSE
    ELSE IF a = <<>> THEN TRUE
    ELSE IF a[1] # b[1] THEN Ord[a[1]] < Ord[b[1]]
    ELSE StrLess(Tail(a), Tail(b))

\* insert x into the ascending list xs after the elements not greater than it
RECURSIVE InsertSorted(_, _)
InsertSorted(x, xs) ==
    IF xs = <<>> THEN <<x>>
    ELSE IF StrLess(x, xs[1]) THEN <<x>> \o xs
    ELSE <<xs[1]>> \o InsertSorted(x, Tail(xs))

\* sorted(list of str) / list.sort()
RECURSIVE SortStrings(_)
SortStrings(xs) ==
    IF xs = <<>> THEN <<>>
    ELSE InsertSorted(xs[Len(xs)], SortStrings(SubSeq(xs, 1, Len(xs) - 1)))

\* sorted(keys) for a set of str
RECURSIVE SortedOfSet(_)
SortedOfSet(S) ==
    IF S = {} THEN <<>>
    ELSE LET m == CHOOSE x \in S : \A y \in S \ {x} : StrLess(x, y)
         IN  <<m>> \o SortedOfSet(S \ {m})

\* x in list
InSeq(x, xs) == \E i \in 1..Len(xs) : xs[i] = x

\* separator.join(parts)
RECURSIVE Join(_, _)
Join(sep, parts) ==
    IF parts = <<>> THEN <<>>
    ELSE IF Len(parts) = 1 THEN parts[1]
    ELSE parts[1] \o sep \o Join(sep, Tail(parts))

----------------------------------------------------------------------------
(* Python values *)

PStr(s) == [k |-> "str", s |-> s, n |-> 0, b |-> FALSE, ks |-> <<>>, xs |-> <<>>]

PNum(n) == [k |-> "num", s |-> <<>>, n |-> n, b |-> FALSE, ks |-> <<>>, xs |-> <<>>]

PBool(b) == [k |-> "bool", s |-> <<>>, n |-> 0, b |-> b, ks |-> <<>>, xs |-> <<>>]

PNone == [k |-> "none", s |-> <<>>, n |-> 0, b |-> FALSE, ks |-> <<>>, xs |-> <<>>]

PList(xs) == [k |-> "list", s |-> <<>>, n |-> 0, b |-> FALSE, ks |-> <<>>, xs |-> xs]

\* a dict with keys ks (in insertion order) and values xs
PDict(ks, xs) == [k |-> "dict", s |-> <<>>, n |-> 0, b |-> FALSE, ks |-> ks, xs |-> xs]

\* the outcome "an exception was raised"
PRaise == [k |-> "raise", s |-> <<>>, n |-> 0, b |-> FALSE, ks |-> <<>>, xs |-> <<>>]

\* key in d
HasKey(d, key) == \E i \in 1..Len(d.ks) : d.ks[i] = key

\* d[key]
Get(d, key) == d.xs[CHOOSE i \in 1..Len(d.ks) : d.ks[i] = key]

\* bool(v): the truth value `if v` / `not v` tests
Truthy(v) ==
    CASE v.k = "str"  -> v.s # <<>>
      [] v.k = "num"  -> v.n # 0
      [] v.k = "bool" -> v.b
      [] v.k = "none" -> FALSE
      [] v.k = "list" -> v.xs # <<>>
      [] v.k = "dict" -> v.ks # <<>>

\* the decimal digits of a natural number
RECURSIVE Digits(_)
Digits(n) ==
    LET d == <<"0", "1", "2", "3", "4", "5", "6", "7", "8", "9">>[(n % 10) + 1]
    IN  IF n < 10 THEN <<d>> ELSE Digits(n \div 10) \o <<d>>

\* str(v); a list renders as the repr of its elements
RECURSIVE Str(_)
Str(v) ==
    CASE v.k = "str"  -> v.s
      [] v.k = "num"  -> Digits(v.n)
      [] v.k = "bool" -> IF v.b THEN <<"T", "r", "u", "e">> ELSE <<"F", "a", "l", "s", "e">>
      [] v.k = "none" -> <<"N", "o", "n", "e">>
      [] v.k = "list" ->
            <<"[">> \o
            Join(<<",", " ">>,
                 [i \in 1..Len(v.xs) |->
                    IF v.xs[i].k = "str"
                    THEN <<"'">> \o v.xs[i].s \o <<"'">>
                    ELSE Str(v.xs[i])])
            \o <<"]">>

----------------------------------------------------------------------------
(* extract_dynamodb_value *)

\* list(payload) for the payload of a set tag: a list stays, a str yields its
\* characters, a scalar is not iterable
ListOf(p) ==
    CASE p.k = "list" -> PList(p.xs)
      [] p.k = "str"  -> PList([i \in 1..Len(p.s) |-> PStr(<<p.s[i]>>)])
      [] p.k \in {"num", "bool", "none"} -> PRaise

\* FirstValueOrNone without the `if value` guard: IndexError on an empty dict
FirstValueUnguarded(value) == IF value.ks # <<>> THEN value.xs[1] ELSE PRaise

\* the unknown-format branch: list(value.values())[0] if value else None
FirstValueOrNone(value) == IF value.ks # <<>> THEN value.xs[1] ELSE PNone

RECURSIVE extract_dynamodb_value(_)
extract_dynamodb_value(value) ==
    IF value.k = "dict"
    THEN IF HasKey(value, "S") THEN Get(value, "S")
         ELSE IF HasKey(value, "N") THEN Get(value, "N")
         ELSE IF HasKey(value, "BOOL") THEN Get(value, "BOOL")
         ELSE IF HasKey(value, "L")
              THEN LET p == ListOf(Get(value, "L"))
                       items == [i \in 1..Len(p.xs) |-> extract_dynamodb_value(p.xs[i])]
                   IN  IF p = PRaise \/ \E i \in 1..Len(items) : items[i] = PRaise
                       THEN PRaise
                       ELSE PList(items)
         ELSE IF HasKey(value, "SS") THEN ListOf(Get(value, "SS"))
         ELSE IF HasKey(value, "NS") THEN ListOf(Get(value, "NS"))
         ELSE FirstValueOrNone(value)
    ELSE value

----------------------------------------------------------------------------
(* Game list parsing (process_registrations, lines 139-148) *)

\* IsDelim with the pattern [,;]+ (no line break)
IsDelimNoNewline(c) == c \in {",", ";"}

\* the delimiters of the pattern [,\n;]+
IsDelim(c) == c \in {",", "\n", ";"}

\* re.split(r'[,\n;]+', s): cut s at every maximal run of delimiters
RECURSIVE ReSplit(_)
ReSplit(s) ==
    LET ds == {i \in 1..Len(s) : IsDelim(s[i])}
    IN  IF ds = {} THEN <<s>>
        ELSE LET i == CHOOSE x \in ds : \A y \in ds : x <= y
                 after == {j \in i..Len(s) : ~IsDelim(s[j])}
                 j == IF after = {} THEN Len(s) + 1
                      ELSE CHOOSE x \in after : \A y \in after : x <= y
             IN  <<SubSeq(s, 1, i - 1)>> \o ReSplit(SubSeq(s, j, Len(s)))

\* [g.strip() for g in pieces if g.strip()]
RECURSIVE StripNonEmpty(_)
StripNonEmpty(pieces) ==
    IF pieces = <<>> THEN <<>>
    ELSE (IF Strip(pieces[1]) # <<>> THEN <<Strip(pieces[1])>> ELSE <<>>)
         \o StripNonEmpty(Tail(pieces))

\* HasGames comparing with "N/A" without .upper()
HasGamesCaseSensitive(stripped) == stripped # <<>> /\ stripped # <<"N", "/", "A">>

\* the test of line 145: the stripped field is not empty and not "N/A"
HasGames(stripped) == stripped # <<>> /\ Upper(stripped) # <<"N", "/", "A">>

\* the list `games` of one registration, from the extracted 'jogos' value
ParseGames(games_raw) ==
    IF games_raw.k = "str"
    THEN LET stripped == Strip(games_raw.s)
         IN  IF HasGames(stripped) THEN StripNonEmpty(ReSplit(stripped)) ELSE <<>>
    ELSE <<>>

\* AddGames without the membership test
AddGamesNoDedup(list, games) == list \o games

\* lines 153-156: append each game not yet in the list
RECURSIVE AddGames(_, _)
AddGames(list, games) ==
    IF games = <<>> THEN list
    ELSE LET game_str == Strip(games[1])
         IN  AddGames(IF game_str # <<>> /\ ~InSeq(game_str, list)
                      THEN Append(list, game_str)
                      ELSE list,
                      Tail(games))

----------------------------------------------------------------------------
(* Name resolution (lines 119-136, repeated at 229-244 and 323-335) *)

\* FallbackFields with the first two entries swapped
FallbackFieldsSwapped ==
    <<"userName", "name", "user_name", "nome", "username", "Name", "UserName">>

FallbackFields ==
    <<"name", "userName", "user_name", "nome", "username", "Name", "UserName">>

\* the field probed first
PrimaryNameField == "nomeCompleto"

\* the loop over the fallback fields: every present field overwrites user_name,
\* and the loop stops at the first truthy value
RECURSIVE ProbeFallback(_, _, _)
ProbeFallback(reg, fields, user_name) ==
    IF fields = <<>> THEN user_name
    ELSE IF fields[1] \in DOMAIN reg
         THEN LET v == extract_dynamodb_value(reg[fields[1]])
              IN  IF Truthy(v) THEN v ELSE ProbeFallback(reg, Tail(fields), v)
         ELSE ProbeFallback(reg, Tail(fields), user_name)

\* user_name as it stands at the test `if not user_name` / `if user_name`
RawUserName(reg) ==
    LET first == IF PrimaryNameField \in DOMAIN reg
                 THEN extract_dynamodb_value(reg[PrimaryNameField])
                 ELSE PNone
    IN  IF ~Truthy(first) THEN ProbeFallback(reg, FallbackFields, first) ELSE first

capitalize_name(name) == IF name = <<>> THEN name ELSE Capitalize(name)

HasUserName(reg) == Truthy(RawUserName(reg))

\* the display name of a registration that has one
DisplayName(reg) == capitalize_name(Str(RawUserName(reg)))

----------------------------------------------------------------------------
(* process_registrations *)

\* the list `games` built from the 'jogos' field of one registration
GamesOf(reg) ==
    IF "jogos" \in DOMAIN reg
    THEN ParseGames(extract_dynamodb_value(reg["jogos"]))
    ELSE <<>>

\* one iteration of the loop over the registrations
ProcessOne(ug, reg) ==
    IF ~HasUserName(reg) THEN ug
    ELSE LET user_name == DisplayName(reg)
             games == GamesOf(reg)
             \* user_games is a defaultdict: reading user_games[user_name] makes the key
             touched == games # <<>> /\ \E i \in 1..Len(games) : Strip(games[i]) # <<>>
             cur == IF user_name \in DOMAIN ug THEN ug[user_name] ELSE <<>>
         IN  IF touched
             THEN [d \in DOMAIN ug \cup {user_name} |->
                     IF d = user_name THEN AddGames(cur, games) ELSE ug[d]]
             ELSE ug

RECURSIVE ProcessFrom(_, _)
ProcessFrom(ug, regs) ==
    IF regs = <<>> THEN ug ELSE ProcessFrom(ProcessOne(ug, regs[1]), Tail(regs))

process_registrations(regs) == ProcessFrom(<<>>, regs)

----------------------------------------------------------------------------
(* generate_listing *)

\* the house games; a title stands for its characters
fixed_games ==
    <<"Joga Junto", "Mind Invaders", "Amazoom", "Frost Shelter", "Pool Party",
      "Azul", "Dixit", "Scrap Racer", "Beaver Creek", "Yozu", "Café da tarde",
      "Dobrões", "Carcasone", "Caveiras de Sedlec", "Codinames", "Bugô",
      "Balde de caranguejo.", "Não testamos esse troço/cinético", "Lálálá",
      "Sapotagem", "Cultive", "Exploding Kittens", "Revelando Emoções", "Dobble",
      "Coup", "O Cerco de Runedar", "Dogs">>

\* f.write(f"- {user_name}\n")
UserLine(user_name) == [kind |-> "user", n |-> 0, text |-> user_name]

\* f.write(f"   {game_counter}) {game}\n")
GameLine(game_counter, game) == [kind |-> "game", n |-> game_counter, text |-> game]

\* f.write("\n")
BlankLine == [kind |-> "blank", n |-> 0, text |-> <<>>]

\* the inner loops: one line per game, game_counter += 1 after each
RECURSIVE GameLines(_, _)
GameLines(games, game_counter) ==
    IF games = <<>> THEN <<>>
    ELSE <<GameLine(game_counter, games[1])>> \o GameLines(Tail(games), game_counter + 1)

\* the loop over sorted(user_games.keys()); game_counter carries on between users
RECURSIVE UserSections(_, _, _)
UserSections(ug, names, game_counter) ==
    IF names = <<>> THEN <<>>
    ELSE LET games == SortStrings(ug[names[1]])
         IN  <<UserLine(names[1])>> \o GameLines(games, game_counter) \o <<BlankLine>>
             \o UserSections(ug, Tail(names), game_counter + Len(games))

\* lines 207-212: the house games, numbered from game_counter on
CatalogSection(game_counter) ==
    IF fixed_games # <<>>
    THEN <<UserLine(<<"Joga Junto (Jogos da Casa)">>)>>
         \o GameLines([i \in 1..Len(fixed_games) |-> <<fixed_games[i]>>], game_counter)
         \o <<BlankLine>>
    ELSE <<>>

\* number of game lines in a sequence of lines
NumGameLines(lines) == Cardinality({i \in 1..Len(lines) : lines[i].kind = "game"})

\* ListingLines with the house games numbered from 1 again
ListingLinesCatalogFromOne(ug) ==
    UserSections(ug, SortedOfSet(DOMAIN ug), 1) \o CatalogSection(1)

\* everything generate_listing writes
ListingLines(ug) ==
    LET users == UserSections(ug, SortedOfSet(DOMAIN ug), 1)
    IN  users \o CatalogSection(1 + NumGameLines(users))

----------------------------------------------------------------------------
(* generate_gamers_list *)

\* lines 226-246: the names in first-seen order, each once
RECURSIVE Participants(_, _)
Participants(participants, regs) ==
    IF regs = <<>> THEN participants
    ELSE Participants(
            IF HasUserName(regs[1]) /\ ~InSeq(DisplayName(regs[1]), participants)
            THEN Append(participants, DisplayName(regs[1]))
            ELSE participants,
            Tail(regs))

\* GamersLines without participants.sort()
GamersLinesUnsorted(regs) == Participants(<<>>, regs)

\* participants.sort(), then one line per participant
GamersLines(regs) == SortStrings(Participants(<<>>, regs))

----------------------------------------------------------------------------
(* generate_csv *)

common_fields ==
    <<"id", "nomeCompleto", "email", "celular", "cidade", "dataNascimento",
      "edicao", "jogos", "possuiJogos", "interesseRPG", "status",
      "createdAt", "instagram", "protecaoDados", "usoImagem">>

\* the field names of the model that are not in common_fields, as sorted() orders them
OtherFieldsSorted ==
    <<"Name", "UserName", "full_name", "name", "nome", "tags", "userName",
      "user_name", "username">>

\* all_fields: the union of the keys of all registrations
AllFields(regs) == UNION {DOMAIN regs[i] : i \in 1..Len(regs)}

\* ordered_fields: the common fields present, then the rest sorted
OrderedFields(regs) ==
    SelectSeq(common_fields, LAMBDA f : f \in AllFields(regs))
    \o SelectSeq(OtherFieldsSorted,
                 LAMBDA f : f \in AllFields(regs) /\ ~InSeq(f, common_fields))

\* lines 294-306: the text of one cell
CsvCell(reg, field) ==
    IF field \in DOMAIN reg
    THEN LET value == extract_dynamodb_value(reg[field])
         IN  IF value.k = "bool" THEN Str(value)
             ELSE IF value.k = "list"
                  THEN Join(<<";", " ">>, [i \in 1..Len(value.xs) |-> Str(value.xs[i])])
             ELSE IF value.k = "none" THEN <<>>
             ELSE Str(value)
    ELSE <<>>

CsvRow(reg, ordered_fields) ==
    [i \in 1..Len(ordered_fields) |-> CsvCell(reg, ordered_fields[i])]

\* what generate_csv writes for a non-empty list of registrations
CsvContent(regs) ==
    [exists |-> TRUE,
     header |-> OrderedFields(regs),
     rows |-> [i \in 1..Len(regs) |-> CsvRow(regs[i], OrderedFields(regs))]]

----------------------------------------------------------------------------
(* generate_attendance_pdf, generate_termo_pdf *)

\* the default of TERMO_NUM_LINHAS
TermoNumLinhas == 30

\* table_data of the attendance sheet after the heading row, and the footer count
AttendanceContent(regs) ==
    LET participants == SortStrings(Participants(<<>>, regs))
    IN  [exists |-> TRUE,
         rows |-> [i \in 1..Len(participants) |-> <<i, participants[i]>>],
         total |-> Len(participants)]

TermoContent(num_linhas) == [exists |-> TRUE, rows |-> num_linhas]

----------------------------------------------------------------------------
(* The stored table *)

\* the low-level attribute format: {'S': s}, {'BOOL': b}, {'L': [...]}, {'SS': [...]}
AttrS(s) == PDict(<<"S">>, <<PStr(s)>>)

AttrN(s) == PDict(<<"N">>, <<PStr(s)>>)

AttrBOOL(b) == PDict(<<"BOOL">>, <<PBool(b)>>)

AttrL(xs) == PDict(<<"L">>, <<PList(xs)>>)

AttrSS(xs) == PDict(<<"SS">>, <<PList(xs)>>)

AttrNS(xs) == PDict(<<"NS">>, <<PList(xs)>>)

\* the registrations tables are made of
RegPool ==
    { \* two registrations of the same person, names and titles differing in case
      [nomeCompleto |-> AttrS(<<"a", "n", "a">>),
       jogos |-> AttrS(<<"A", "z", "u", "l", ",", " ", "U", "n", "o">>)],
      [nomeCompleto |-> PStr(<<"A", "N", "A">>),
       jogos |-> PStr(<<"U", "n", "o", ";", "a", "z", "u", "l", "\n", "G", "o">>)],
      \* a name from a fallback field, no games
      [name |-> AttrS(<<"b", "o", "b">>), jogos |-> AttrS(<<"n", "/", "A">>)],
      \* an empty primary field, a fallback name, repeated titles and delimiters
      [nomeCompleto |-> AttrS(<<>>), nome |-> AttrS(<<"B", "o", "b">>),
       jogos |-> AttrS(<<" ", "G", "o", ",", ",", "G", "o", " ", ";", " ">>)],
      \* no name at all
      [email |-> AttrS(<<"x">>), jogos |-> AttrS(<<"U", "n", "o">>)],
      \* a string-set and a boolean attribute, no games field
      [nomeCompleto |-> AttrS(<<"d", "a", "n">>), possuiJogos |-> AttrBOOL(FALSE),
       tags |-> AttrSS(<<PStr(<<"x">>), PStr(<<"y">>)>>)],
      \* a games field that is a list, not a string
      [nomeCompleto |-> AttrS(<<"e", "v", "e">>), id |-> AttrN(<<"7">>),
       jogos |-> AttrL(<<AttrS(<<"G", "o">>), AttrS(<<"U", "n", "o">>)>>)],
      \* a whitespace-only games field
      [nomeCompleto |-> AttrS(<<"a", "l">>), jogos |-> AttrS(<<" ", "\n", " ">>)],
      \* an empty games field
      [username |-> AttrS(<<"A", "L">>), jogos |-> AttrS(<<>>)] }

RECURSIVE SeqsUpTo(_, _)
SeqsUpTo(S, n) ==
    IF n = 0 THEN {<<>>}
    ELSE LET shorter == SeqsUpTo(S, n - 1)
         IN  shorter \cup {Append(s, x) : s \in {q \in shorter : Len(q) = n - 1}, x \in S}

Tables == SeqsUpTo(RegPool, MaxRegs)

\* the orders in which the members of a stored set may come back from a scan
Orders(xs) == {[i \in 1..Len(xs) |-> xs[p[i]]] : p \in Permutations(1..Len(xs))}

\* an attribute as a scan may return it: a set-typed one with its members in any order
AttrMaterializations(a) ==
    IF a.k = "dict" /\ a.ks \in {<<"SS">>, <<"NS">>}
    THEN {PDict(a.ks, <<PList(o)>>) : o \in Orders(a.xs[1].xs)}
    ELSE {a}

RowMaterializations(row) ==
    {r \in [DOMAIN row -> UNION {AttrMaterializations(row[f]) : f \in DOMAIN row}] :
        \A f \in DOMAIN row : r[f] \in AttrMaterializations(row[f])}

RECURSIVE TableMaterializations(_)
TableMaterializations(t) ==
    IF t = <<>> THEN {<<>>}
    ELSE {<<r>> \o rest : r \in RowMaterializations(t[1]),
                          rest \in TableMaterializations(Tail(t))}

----------------------------------------------------------------------------
(* Files *)

Absent == [exists |-> FALSE]

TextFile(lines) == [exists |-> TRUE, lines |-> lines]

\* a file opened for writing and left empty by a failed write
TruncatedText == TextFile(<<>>)

TruncatedCsv == [exists |-> TRUE, header |-> <<>>, rows |-> <<>>]

\* the table an earlier run exported, whose files are still in the directory
StaleTable ==
    <<[nomeCompleto |-> AttrS(<<"z", "o", "e">>), jogos |-> AttrS(<<"G", "o">>)],
      [name |-> AttrS(<<"y", "v", "e">>)]>>

InitialFile(kind, d) ==
    IF d = "empty" THEN Absent
    ELSE CASE kind = "listing" -> TextFile(ListingLines(process_registrations(StaleTable)))
           [] kind = "gamers" -> TextFile(GamersLines(StaleTable))
           [] kind = "csv" -> CsvContent(StaleTable)
           [] kind = "attendance" -> AttendanceContent(StaleTable)
           [] kind = "termo" -> TermoContent(TermoNumLinhas)

NoPrev == [valid |-> FALSE]

----------------------------------------------------------------------------
(* main: one action per stage *)

Stages == <<"connect", "fetch", "process", "listing", "roster", "csv", "attendance", "termo">>

Diagnostic(stage) == [stage |-> stage]

\* a stage's except clause: print the diagnostic to sys.stderr, then sys.exit(1)
Abort(stage) ==
    /\ stderr' = Append(stderr, Diagnostic(stage))
    /\ exit_code' = 1
    /\ pc' = "exited"

Init ==
    /\ table \in Tables
    /\ disk0 \in {"empty", "stale"}
    /\ pc = "connect"
    /\ run = 1
    /\ registrations = <<>>
    /\ user_games = <<>>
    /\ games_listing_file = InitialFile("listing", disk0)
    /\ gamers_file = InitialFile("gamers", disk0)
    /\ csv_file = InitialFile("csv", disk0)
    /\ attendance_pdf = InitialFile("attendance", disk0)
    /\ termo_pdf = InitialFile("termo", disk0)
    /\ stderr = <<>>
    /\ exit_code = -1
    /\ executed = <<>>
    /\ prev = NoPrev
    /\ arg = <<>>
    /\ res = <<>>
    /\ called = FALSE

\* get_dynamodb_client
Connect ==
    /\ pc = "connect"
    /\ executed' = Append(executed, "connect")
    /\ \/ /\ pc' = "fetch"
          /\ UNCHANGED <<stderr, exit_code>>
       \/ Abort("connect")
    /\ UNCHANGED <<table, disk0, run, registrations, user_games, games_listing_file,
                   gamers_file, csv_file, attendance_pdf, termo_pdf, prev, fnVars>>

\* fetch_registrations
Fetch ==
    /\ pc = "fetch"
    /\ executed' = Append(executed, "fetch")
    /\ \/ /\ registrations' \in TableMaterializations(table)
          /\ pc' = "process"
          /\ UNCHANGED <<stderr, exit_code>>
       \/ /\ Abort("fetch")
          /\ UNCHANGED registrations
    /\ UNCHANGED <<table, disk0, run, user_games, games_listing_file,
                   gamers_file, csv_file, attendance_pdf, termo_pdf, prev, fnVars>>

\* process_registrations
Process ==
    /\ pc = "process"
    /\ executed' = Append(executed, "process")
    /\ user_games' = process_registrations(registrations)
    /\ pc' = "listing"
    /\ UNCHANGED <<table, disk0, run, registrations, games_listing_file, gamers_file,
                   csv_file, attendance_pdf, termo_pdf, stderr, exit_code, prev, fnVars>>

\* generate_listing
GenListing ==
    /\ pc = "listing"
    /\ executed' = Append(executed, "listing")
    /\ \/ /\ games_listing_file' = TextFile(ListingLines(user_games))
          /\ pc' = "roster"
          /\ UNCHANGED <<stderr, exit_code>>
       \/ /\ games_listing_file' \in {games_listing_file, TruncatedText}
          /\ Abort("listing")
    /\ UNCHANGED <<table, disk0, run, registrations, user_games, gamers_file,
                   csv_file, attendance_pdf, termo_pdf, prev, fnVars>>

\* generate_gamers_list
GenRoster ==
    /\ pc = "roster"
    /\ executed' = Append(executed, "roster")
    /\ \/ /\ gamers_file' = TextFile(GamersLines(registrations))
          /\ pc' = "csv"
          /\ UNCHANGED <<stderr, exit_code>>
       \/ /\ gamers_file' \in {gamers_file, TruncatedText}
          /\ Abort("roster")
    /\ UNCHANGED <<table, disk0, run, registrations, user_games, games_listing_file,
                   csv_file, attendance_pdf, termo_pdf, prev, fnVars>>

\* generate_csv
GenCsv ==
    /\ pc = "csv"
    /\ executed' = Append(executed, "csv")
    /\ \/ \* lines 265-267: nothing to export, a message on sys.stderr, return
          /\ registrations = <<>>
          /\ stderr' = Append(stderr, Diagnostic("csv"))
          /\ pc' = "attendance"
          /\ UNCHANGED <<csv_file, exit_code>>
       \/ /\ registrations # <<>>
          /\ csv_file' = CsvContent(registrations)
          /\ pc' = "attendance"
          /\ UNCHANGED <<stderr, exit_code>>
       \/ /\ registrations # <<>>
          /\ csv_file' \in {csv_file, TruncatedCsv}
          /\ Abort("csv")
    /\ UNCHANGED <<table, disk0, run, registrations, user_games, games_listing_file,
                   gamers_file, attendance_pdf, termo_pdf, prev, fnVars>>

\* generate_attendance_pdf
GenAttendance ==
    /\ pc = "attendance"
    /\ executed' = Append(executed, "attendance")
    /\ \/ /\ attendance_pdf' = AttendanceContent(registrations)
          /\ pc' = "termo"
          /\ UNCHANGED <<stderr, exit_code>>
       \/ /\ UNCHANGED attendance_pdf
          /\ Abort("attendance")
    /\ UNCHANGED <<table, disk0, run, registrations, user_games, games_listing_file,
                   gamers_file, csv_file, termo_pdf, prev, fnVars>>

\* generate_termo_pdf, then main returns
GenTermo ==
    /\ pc = "termo"
    /\ executed' = Append(executed, "termo")
    /\ \/ /\ termo_pdf' = TermoContent(TermoNumLinhas)
          /\ pc' = "done"
          /\ exit_code' = 0
          /\ UNCHANGED stderr
       \/ /\ UNCHANGED termo_pdf
          /\ Abort("termo")
    /\ UNCHANGED <<table, disk0, run, registrations, user_games, games_listing_file,
                   gamers_file, csv_file, attendance_pdf, prev, fnVars>>

\* the script, having completed, is started again against the same table
Rerun ==
    /\ pc = "done"
    /\ run < MaxRuns
    /\ prev' = [valid |-> TRUE, listing |-> games_listing_file,
                gamers |-> gamers_file, csv |-> csv_file]
    /\ run' = run + 1
    /\ pc' = "connect"
    /\ registrations' = <<>>
    /\ user_games' = <<>>
    /\ stderr' = <<>>
    /\ exit_code' = -1
    /\ executed' = <<>>
    /\ UNCHANGED <<table, disk0, games_listing_file, gamers_file, csv_file,
                   attendance_pdf, termo_pdf, fnVars>>

Next ==
    \/ Connect
    \/ Fetch
    \/ Process
    \/ GenListing
    \/ GenRoster
    \/ GenCsv
    \/ GenAttendance
    \/ GenTermo
    \/ Rerun

Spec == Init /\ [][Next]_vars

----------------------------------------------------------------------------
(* Specifications that apply one function to enumerated inputs *)

\* main() is not running
PipeIdle ==
    /\ table = <<>>
    /\ disk0 = "empty"
    /\ pc = "idle"
    /\ run = 0
    /\ registrations = <<>>
    /\ user_games = <<>>
    /\ games_listing_file = Absent
    /\ gamers_file = Absent
    /\ csv_file = Absent
    /\ attendance_pdf = Absent
    /\ termo_pdf = Absent
    /\ stderr = <<>>
    /\ exit_code = -1
    /\ executed = <<>>
    /\ prev = NoPrev

(* -- game list parsing -- *)

ParseAlphabet == {"a", "A", ",", ";", "\n", " "}

\* the example of the specification: "Azul, Dixit;; Coup\nAzul"
ExampleGamesField ==
    <<"A", "z", "u", "l", ",", " ", "D", "i", "x", "i", "t", ";", ";", " ",
      "C", "o", "u", "p", "\n", "A", "z", "u", "l">>

ParseInputs ==
    SeqsUpTo(ParseAlphabet, MaxStrLen)
    \cup {ExampleGamesField,
          <<"N", "/", "A">>, <<"n", "/", "a">>, <<" ", "N", "/", "a", "\n">>,
          <<"n", "/", "a", ",", "a">>}

\* the registration whose games field is under study
ParseReg(games_field, tagged) ==
    [nomeCompleto |-> AttrS(<<"p">>),
     jogos |-> IF tagged THEN AttrS(games_field) ELSE PStr(games_field)]

InitParse ==
    /\ PipeIdle
    /\ arg \in ParseInputs
    /\ res = <<>>
    /\ called = FALSE

\* process_registrations on the one registration
ApplyParse ==
    /\ ~called
    /\ \E tagged \in BOOLEAN : res' = process_registrations(<<ParseReg(arg, tagged)>>)
    /\ called' = TRUE
    /\ UNCHANGED <<arg, pipeVars>>

NextParse == ApplyParse

SpecParse == InitParse /\ [][NextParse]_vars

(* -- name resolution -- *)

NameFields == <<"full_name", "nomeCompleto">> \o FallbackFields

\* the value stored in the i-th name field when it is not empty
NameValue(i) ==
    <<"j", "O", IF i % 2 = 0 THEN "e" ELSE "E", LowerLetters[i]>>

\* how a name field may appear: absent, an empty string, the boolean false, a name
NameChoices(i) ==
    IF NameFields[i] \in {"nomeCompleto", "name"}
    THEN {"absent", "empty", "false", "value"}
    ELSE {"absent", "empty", "value"}

\* a registration with each name field as chosen, and one game
NameReg(choice) ==
    [f \in {NameFields[i] : i \in {j \in 1..Len(NameFields) : choice[j] # "absent"}}
           \cup {"jogos"} |->
        IF f = "jogos" THEN AttrS(<<"G", "o">>)
        ELSE LET i == CHOOSE j \in 1..Len(NameFields) : NameFields[j] = f
             IN  CASE choice[i] = "empty" -> AttrS(<<>>)
                   [] choice[i] = "false" -> AttrBOOL(FALSE)
                   [] choice[i] = "value" -> AttrS(NameValue(i))]

NameInputs ==
    {NameReg(choice) :
        choice \in {c \in [1..Len(NameFields) -> {"absent", "empty", "false", "value"}] :
                        \A i \in 1..Len(NameFields) : c[i] \in NameChoices(i)}}

InitName ==
    /\ PipeIdle
    /\ arg \in NameInputs
    /\ res = <<>>
    /\ called = FALSE

\* the attendee map and the roster of the one registration
ApplyResolve ==
    /\ ~called
    /\ res' = [map |-> process_registrations(<<arg>>), roster |-> GamersLines(<<arg>>)]
    /\ called' = TRUE
    /\ UNCHANGED <<arg, pipeVars>>

NextName == ApplyResolve

SpecName == InitName /\ [][NextName]_vars

(* -- attribute normalization -- *)

\* longest list attribute enumerated
MaxListLen == 2

\* the description of an attribute: its shape, its tag, its payload, its elements
Shape(shape, tag, payload, elems) ==
    [shape |-> shape, tag |-> tag, payload |-> payload, elems |-> elems]

ScalarShapes ==
    {Shape("string", "S", PStr(s), <<>>) : s \in {<<>>, <<"a", "b">>}}
    \cup {Shape("number", "N", PStr(s), <<>>) : s \in {<<"0">>, <<"7">>}}
    \cup {Shape("boolean", "BOOL", PBool(b), <<>>) : b \in BOOLEAN}
    \cup {Shape("string-set", "SS", PList(xs), <<>>) :
            xs \in {<<PStr(<<"x">>)>>, <<PStr(<<"y">>), PStr(<<"x">>)>>}}
    \cup {Shape("number-set", "NS", PList(xs), <<>>) :
            xs \in {<<PStr(<<"3">>), PStr(<<"1">>)>>}}
    \cup {Shape("unknown", "NULL", PBool(TRUE), <<>>),
          Shape("unknown", "B", PStr(<<"a">>), <<>>),
          Shape("empty", "", PNone, <<>>)}

ListShapes(elems) == {Shape("list", "L", PNone, es) : es \in SeqsUpTo(elems, MaxListLen)}

\* scalars, lists of scalars, and lists holding a list
ExtractInputs ==
    ScalarShapes
    \cup ListShapes(ScalarShapes
                    \cup {Shape("list", "L", PNone, <<>>),
                          Shape("list", "L", PNone,
                                <<Shape("string", "S", PStr(<<"a", "b">>), <<>>),
                                  Shape("unknown", "NULL", PBool(TRUE), <<>>)>>)})

\* the attribute in the store's format
RECURSIVE Wrap(_)
Wrap(d) ==
    IF d.shape = "empty" THEN PDict(<<>>, <<>>)
    ELSE IF d.shape = "list"
         THEN PDict(<<"L">>, <<PList([i \in 1..Len(d.elems) |-> Wrap(d.elems[i])])>>)
    ELSE PDict(<<d.tag>>, <<d.payload>>)

InitExtract ==
    /\ PipeIdle
    /\ arg \in ExtractInputs
    /\ res = <<>>
    /\ called = FALSE

ApplyExtract ==
    /\ ~called
    /\ res' = extract_dynamodb_value(Wrap(arg))
    /\ called' = TRUE
    /\ UNCHANGED <<arg, pipeVars>>

NextExtract == ApplyExtract

SpecExtract == InitExtract /\ [][NextExtract]_vars

(* -- fetch_registrations -- *)

\* most pages a scan of the table is answered in
MaxPages == 3

\* a page of the scan: its items, and whether the response carries 'Items' at all
PageVariants ==
    {[Items |-> its, hasItems |-> TRUE] :
        its \in {<<>>, <<"r1">>, <<"r2">>, <<"r1", "r2">>}}
    \cup {[Items |-> <<>>, hasItems |-> FALSE]}

\* the pagings of a table: one page at least
ScanInputs == SeqsUpTo(PageVariants, MaxPages) \ {<<>>}

\* the store's answer to table.scan(ExclusiveStartKey=key), key 0 standing for
\* a scan from the start: the page after the one that ended at key, with a
\* LastEvaluatedKey unless it is the last page
StoreScan(pages, key) ==
    [Items |-> pages[key + 1].Items,
     hasItems |-> pages[key + 1].hasItems,
     hasKey |-> key + 1 < Len(pages),
     LastEvaluatedKey |-> IF key + 1 < Len(pages) THEN key + 1 ELSE 0]

\* response.get('Items', [])
ItemsOf(response) == IF response.hasItems THEN response.Items ELSE <<>>

\* the loop test with an empty page taken for the end of the table
MorePagesNonEmpty(response) == response.hasKey /\ ItemsOf(response) # <<>>

\* the loop test: 'LastEvaluatedKey' in response
MorePages(response) == response.hasKey

NoResponse == [Items |-> <<>>, hasItems |-> FALSE, hasKey |-> FALSE, LastEvaluatedKey |-> 0]

InitFetch ==
    /\ PipeIdle
    /\ arg \in ScanInputs
    /\ res = [pc |-> "start", registrations |-> <<>>, response |-> NoResponse,
              requests |-> <<>>]
    /\ called = FALSE

\* lines 67-69: the first scan, without a start key
ScanFirst ==
    /\ res.pc = "start"
    /\ LET response == StoreScan(arg, 0)
       IN  res' = [pc |-> "loop",
                   registrations |-> ItemsOf(response),
                   response |-> response,
                   requests |-> <<0>>]
    /\ called' = TRUE
    /\ UNCHANGED <<arg, pipeVars>>

\* lines 72-74: one turn of the loop
ScanNext ==
    /\ res.pc = "loop"
    /\ MorePages(res.response)
    /\ LET response == StoreScan(arg, res.response.LastEvaluatedKey)
       IN  res' = [pc |-> "loop",
                   registrations |-> res.registrations \o ItemsOf(response),
                   response |-> response,
                   requests |-> Append(res.requests, res.response.LastEvaluatedKey)]
    /\ UNCHANGED <<arg, called, pipeVars>>

\* line 76: the loop is over
FetchReturn ==
    /\ res.pc = "loop"
    /\ ~MorePages(res.response)
    /\ res' = [res EXCEPT !.pc = "returned"]
    /\ UNCHANGED <<arg, called, pipeVars>>

\* lines 77-82: a scan raises; the diagnostic is printed and the process exits
ScanRaises ==
    /\ \/ res.pc = "start"
       \/ res.pc = "loop" /\ MorePages(res.response)
    /\ res' = [res EXCEPT !.pc = "exited"]
    /\ called' = TRUE
    /\ UNCHANGED <<arg, pipeVars>>

NextFetch ==
    \/ ScanFirst
    \/ ScanNext
    \/ FetchReturn
    \/ ScanRaises

SpecFetch == InitFetch /\ [][NextFetch]_vars

----------------------------------------------------------------------------
(* Properties *)

NoDup(L) == \A i, j \in 1..Len(L) : i # j => L[i] # L[j]

SetOf(L) == {L[i] : i \in 1..Len(L)}

\* position of the first occurrence of x in L
FirstIndex(x, L) == CHOOSE i \in 1..Len(L) : L[i] = x /\ \A j \in 1..(i - 1) : L[j] # x

\* the stage was entered in this run and did not abort
Returned(stage) ==
    /\ InSeq(stage, executed)
    /\ ~(pc = "exited" /\ executed[Len(executed)] = stage)

\* the display names the registrations resolve to
ResolvedNames(regs) ==
    {DisplayName(regs[i]) : i \in {j \in 1..Len(regs) : HasUserName(regs[j])}}

\* the titles of the registrations resolving to d, as parsed, in registration order
RECURSIVE TitleStream(_, _)
TitleStream(regs, d) ==
    IF regs = <<>> THEN <<>>
    ELSE (IF HasUserName(regs[1]) /\ DisplayName(regs[1]) = d
          THEN GamesOf(regs[1]) ELSE <<>>)
         \o TitleStream(Tail(regs), d)

\* L holds the elements of stream, each once, ordered by first occurrence in stream
IsFirstSeenUnion(L, stream) ==
    /\ NoDup(L)
    /\ SetOf(L) = SetOf(stream)
    /\ \A i, j \in 1..Len(L) :
          i < j => FirstIndex(L[i], stream) < FirstIndex(L[j], stream)

\* C1: after process_registrations, the list under each display name is the union
\* of the parsed titles of the registrations resolving to it, in first-seen order,
\* without exact duplicates; names without titles have no key.
C1_MergedUnionFirstSeen ==
    Returned("process") =>
        /\ DOMAIN user_games \subseteq ResolvedNames(registrations)
        /\ \A d \in ResolvedNames(registrations) :
              LET stream == TitleStream(registrations, d)
              IN  IF stream = <<>> THEN d \notin DOMAIN user_games
                  ELSE /\ d \in DOMAIN user_games
                       /\ IsFirstSeenUnion(user_games[d], stream)

\* two registrations of one name were merged, a repeated title dropped and two
\* titles differing only in case both kept
C1_Witness ==
    /\ Returned("process")
    /\ \E d \in DOMAIN user_games :
          /\ Len(TitleStream(registrations, d)) = 5
          /\ user_games[d] = <<<<"A", "z", "u", "l">>, <<"U", "n", "o">>,
                               <<"a", "z", "u", "l">>, <<"G", "o">>>>

\* the maximal runs of non-delimiter characters of s, as <<first, last>>
DelimiterFreeRuns(s) ==
    {r \in (1..Len(s)) \X (1..Len(s)) :
        /\ r[1] <= r[2]
        /\ \A k \in r[1]..r[2] : s[k] \notin {",", ";", "\n"}
        /\ (r[1] = 1 \/ s[r[1] - 1] \in {",", ";", "\n"})
        /\ (r[2] = Len(s) \/ s[r[2] + 1] \in {",", ";", "\n"})}

TitleOfRun(s, r) == Strip(SubSeq(s, r[1], r[2]))

\* where the title t first starts in s
FirstStart(s, t) ==
    LET starts == {r[1] : r \in {q \in DelimiterFreeRuns(s) : TitleOfRun(s, q) = t}}
    IN  CHOOSE i \in starts : \A j \in starts : i <= j

\* the spellings of "N/A"
NAForms == {<<"N", "/", "A">>, <<"n", "/", "a">>, <<"N", "/", "a">>, <<"n", "/", "A">>}

\* s is empty, whitespace only, or "N/A" in some letter case
MeansNoGames(s) == (\A i \in 1..Len(s) : IsSpace(s[i])) \/ Strip(s) \in NAForms

\* C2: a games string other than empty/"N/A" is split at every run of commas,
\* semicolons and line breaks; the trimmed non-empty tokens are kept in their
\* order, exact duplicates dropped; the example yields Azul, Dixit, Coup.
C2_ParseSplitsTrimsDedups ==
    called =>
        /\ ~MeansNoGames(arg) =>
              LET titles == {TitleOfRun(arg, r) : r \in DelimiterFreeRuns(arg)} \ {<<>>}
              IN  IF titles = {} THEN res = <<>>
                  ELSE /\ DOMAIN res = {<<"P">>}
                       /\ NoDup(res[<<"P">>])
                       /\ SetOf(res[<<"P">>]) = titles
                       /\ \A i, j \in 1..Len(res[<<"P">>]) :
                             i < j => FirstStart(arg, res[<<"P">>][i])
                                        < FirstStart(arg, res[<<"P">>][j])
        /\ arg = ExampleGamesField =>
              /\ DOMAIN res = {<<"P">>}
              /\ res[<<"P">>] = <<<<"A", "z", "u", "l">>, <<"D", "i", "x", "i", "t">>,
                                  <<"C", "o", "u", "p">>>>

\* the example string has been parsed into three titles
C2_Witness ==
    /\ called
    /\ arg = ExampleGamesField
    /\ DOMAIN res = {<<"P">>}
    /\ Len(res[<<"P">>]) = 3

\* the registration lists no games: the field is absent, or a string that is
\* empty, whitespace only or "N/A"
ListsNoGames(reg) ==
    \/ "jogos" \notin DOMAIN reg
    \/ LET v == extract_dynamodb_value(reg["jogos"])
       IN  v.k = "str" /\ MeansNoGames(v.s)

\* the attendee headings of a listing (all but the house games heading)
Headings(lines) ==
    LET hs == SelectSeq(lines, LAMBDA l : l.kind = "user")
    IN  [i \in 1..(Len(hs) - 1) |-> hs[i].text]

\* C3: registrations that list no games add no key and no title, so every name
\* in the attendee map, and every attendee heading of the listing, has at least
\* one non-empty title.
C3_NoGamesNoEntry ==
    /\ Returned("process") =>
          /\ \A d \in DOMAIN user_games :
                /\ user_games[d] # <<>>
                /\ \A i \in 1..Len(user_games[d]) : user_games[d][i] # <<>>
          /\ user_games =
                process_registrations(
                    SelectSeq(registrations, LAMBDA r : ~ListsNoGames(r)))
    /\ Returned("listing") =>
          /\ SetOf(Headings(games_listing_file.lines)) = DOMAIN user_games
          /\ \A i \in 1..Len(games_listing_file.lines) :
                games_listing_file.lines[i].kind = "user" =>
                    games_listing_file.lines[i + 1].kind = "game"

\* a named registration without games sits beside one with games, and the
\* listing shows only the latter
C3_Witness ==
    /\ Returned("listing")
    /\ DOMAIN user_games # {}
    /\ \E i \in 1..Len(registrations) :
          /\ ListsNoGames(registrations[i])
          /\ "jogos" \in DOMAIN registrations[i]
          /\ HasUserName(registrations[i])
          /\ DisplayName(registrations[i]) \notin DOMAIN user_games

\* the game lines of a listing, top to bottom
GameLinesOf(lines) == SelectSeq(lines, LAMBDA l : l.kind = "game")

\* C4: the numbers on the game lines of the listing are 1, 2, 3, ... through
\* all attendee sections and the house games, without restarting.
C4_CounterRunsThrough ==
    Returned("listing") =>
        LET g == GameLinesOf(games_listing_file.lines)
        IN  /\ \A i \in 1..Len(g) : g[i].n = i
            /\ Len(g) >= Len(fixed_games)
            /\ \A i \in 1..Len(fixed_games) :
                  g[Len(g) - Len(fixed_games) + i].text = <<fixed_games[i]>>

\* a listing with two attendee sections followed by the house games
C4_Witness ==
    /\ Returned("listing")
    /\ Cardinality(DOMAIN user_games) = 2
    /\ Len(GameLinesOf(games_listing_file.lines)) > Len(fixed_games) + 2

\* C5: the roster holds each resolved display name once, ascending, one per
\* line, whether or not the registration listed games; registrations without a
\* name add no line.
C5_RosterSortedUnique ==
    Returned("roster") =>
        /\ \A i \in 1..(Len(gamers_file.lines) - 1) :
              StrLess(gamers_file.lines[i], gamers_file.lines[i + 1])
        /\ SetOf(gamers_file.lines) = ResolvedNames(registrations)

\* a roster of two names given in descending order, one of them without games
C5_Witness ==
    /\ Returned("roster")
    /\ Len(gamers_file.lines) = 2
    /\ Participants(<<>>, registrations) # gamers_file.lines
    /\ \E i \in 1..2 : gamers_file.lines[i] \notin DOMAIN user_games

\* C6: after generate_csv returns, the CSV export has one data row per raw
\* registration, in input order, each with a cell for every field name found
\* in any registration.
C6_CsvRowPerRegistration ==
    (Returned("csv") /\ csv_file.exists) =>
        /\ Len(csv_file.rows) = Len(registrations)
        /\ SetOf(csv_file.header) = AllFields(registrations)
        /\ \A i \in 1..Len(csv_file.rows) :
              /\ Len(csv_file.rows[i]) = Len(csv_file.header)
              /\ \A c \in 1..Len(csv_file.header) :
                    csv_file.header[c] \notin DOMAIN registrations[i]
                        => csv_file.rows[i][c] = <<>>

\* C9: a second complete run against the unchanged table leaves the listing,
\* the roster and the CSV exactly as the first complete run left them.
C9_RerunByteIdentical ==
    (run > 1 /\ pc = "done" /\ prev.valid) =>
        /\ games_listing_file = prev.listing
        /\ gamers_file = prev.gamers
        /\ csv_file = prev.csv

\* C10: the stages run in the fixed order; a stage that reports a failure on
\* the error stream ends the run there with a non-zero status, and a run that
\* completes has reported none.
C10_FailedStageEndsRun ==
    /\ executed = SubSeq(Stages, 1, Len(executed))
    /\ stderr # <<>> =>
          /\ pc = "exited"
          /\ exit_code # 0
          /\ Len(stderr) = 1
          /\ stderr[1].stage = executed[Len(executed)]
    /\ pc = "done" => (exit_code = 0 /\ executed = Stages)
    /\ pc = "exited" => (exit_code # 0 /\ stderr # <<>>)

\* the name fields in the order of the claim as amended: nomeCompleto first
ProbeOrderAmended == <<"nomeCompleto">> \o
    <<"name", "userName", "user_name", "nome", "username", "Name", "UserName">>

\* the name fields in the order of the claim as written: full_name first
ProbeOrderWritten == <<"full_name">> \o
    <<"name", "userName", "user_name", "nome", "username", "Name", "UserName">>

\* the text of a string attribute; empty for an attribute that is not a string
TextOf(attr) == IF attr.xs[1].k = "str" THEN attr.xs[1].s ELSE <<>>

\* name is raw with its first character in upper and the others in lower case
IsCapitalizedOf(name, raw) ==
    /\ Len(name) = Len(raw)
    /\ Lower(name) = Lower(raw)
    /\ ~IsLowerChar(name[1])
    /\ \A i \in 2..Len(name) : ~IsUpperChar(name[i])

\* the registration reg yields the attendee named by the first non-empty field
\* of order, capitalized, or none when no field of order is non-empty
ResolvesBy(order, reg, out) ==
    LET hits == {i \in 1..Len(order) :
                    order[i] \in DOMAIN reg /\ TextOf(reg[order[i]]) # <<>>}
    IN  IF hits = {}
        THEN out.map = <<>> /\ out.roster = <<>>
        ELSE LET first == CHOOSE i \in hits : \A j \in hits : i <= j
             IN  /\ Len(out.roster) = 1
                 /\ IsCapitalizedOf(out.roster[1], TextOf(reg[order[first]]))
                 /\ DOMAIN out.map = {out.roster[1]}

\* C7 as written: full_name is tried first, then the fallback fields in order.
C7_FullNameFirst == called => ResolvesBy(ProbeOrderWritten, arg, res)

\* C7 as amended: nomeCompleto is tried first, then the fallback fields in
\* order; the first non-empty value, capitalized, is the display name; with no
\* non-empty value the registration adds no attendee.
C7_NomeCompletoFirst == called => ResolvesBy(ProbeOrderAmended, arg, res)

\* an empty nomeCompleto, an absent `name`, and the name taken from userName
C7_Witness ==
    /\ called
    /\ "nomeCompleto" \in DOMAIN arg
    /\ "name" \notin DOMAIN arg
    /\ "user_name" \in DOMAIN arg
    /\ Len(res.roster) = 1
    /\ res.roster[1] = <<"J", "o", "e", "d">>

\* no dict and no exception anywhere in v
RECURSIVE TagFree(_)
TagFree(v) ==
    /\ v.k \notin {"dict", "raise"}
    /\ v.k = "list" => \A i \in 1..Len(v.xs) : TagFree(v.xs[i])

\* the payload a described attribute wraps
RECURSIVE PayloadOf(_)
PayloadOf(d) ==
    IF d.shape = "list" THEN PList([i \in 1..Len(d.elems) |-> PayloadOf(d.elems[i])])
    ELSE IF d.shape = "empty" THEN PNone
    ELSE d.payload

\* C8: for every attribute shape extract_dynamodb_value returns the wrapped
\* payload free of tags (lists element by element, None for an empty dict) and
\* raises nothing.
C8_ExtractYieldsPayload ==
    called => (res # PRaise /\ TagFree(res) /\ res = PayloadOf(arg))

\* a list attribute holding an empty dict and a nested list has been normalized
C8_Witness ==
    /\ called
    /\ arg.shape = "list"
    /\ Len(arg.elems) = 2
    /\ arg.elems[1].shape = "empty"
    /\ arg.elems[2].shape = "list"
    /\ Len(arg.elems[2].elems) = 2
    /\ res = PList(<<PNone, PList(<<PStr(<<"a", "b">>), PBool(TRUE)>>)>>)

\* what generate_csv leaves for regs in a directory that held no CSV before
CsvFromEmptyDirectory(regs) == IF regs = <<>> THEN Absent ELSE CsvContent(regs)

\* C11: once a generator has returned, its target file holds what the input
\* alone determines, whatever the file held before: the same content as when
\* the directory was empty before the run, also for zero registrations.
C11_GeneratorsOverwrite ==
    /\ Returned("listing") => games_listing_file = TextFile(ListingLines(user_games))
    /\ Returned("roster") => gamers_file = TextFile(GamersLines(registrations))
    /\ Returned("csv") => csv_file = CsvFromEmptyDirectory(registrations)
    /\ Returned("attendance") => attendance_pdf = AttendanceContent(registrations)
    /\ Returned("termo") => termo_pdf = TermoContent(TermoNumLinhas)

\* the items of the pages, page after page
RECURSIVE AllItems(_)
AllItems(pages) ==
    IF pages = <<>> THEN <<>>
    ELSE (IF pages[1].hasItems THEN pages[1].Items ELSE <<>>) \o AllItems(Tail(pages))

\* C12: fetch_registrations asks for each page after the first with the key of
\* the response before it, goes on as long as a response carries a key (also
\* past a page without items), stops at the first response without one, and
\* returns the items of all pages, each page once, in page order.
C12_FetchReturnsAllPages ==
    /\ res.pc \in {"loop", "returned"} =>
          /\ res.requests = [i \in 1..Len(res.requests) |-> i - 1]
          /\ res.registrations = AllItems(SubSeq(arg, 1, Len(res.requests)))
    /\ res.pc = "returned" =>
          /\ Len(res.requests) = Len(arg)
          /\ res.registrations = AllItems(arg)

\* three pages, the second without items, the third with some, all returned
C12_Witness ==
    /\ res.pc = "returned"
    /\ Len(arg) = 3
    /\ arg[1].Items # <<>>
    /\ arg[2].Items = <<>>
    /\ arg[3].Items = <<"r1", "r2">>
    /\ Len(res.registrations) >= 3

====
